---- MODULE Spec2Model ----
(***************************************************************************)
(* Model of promethius_mindmap.py: the Streamlit session (idea store,      *)
(* show_empty flag, last evaluation), the two persisted JSON files, the    *)
(* button / widget handlers of main(), and the pure helpers                *)
(* build_mindmap_md / markdown_from_idea / extract_score.                  *)
(*                                                                         *)
(* Representation.  A Python dict (insertion ordered) is a sequence of     *)
(* [key, val] records with pairwise distinct keys.  A text (heading text,  *)
(* model response) is a sequence of one-character strings.  A rendered     *)
(* markdown line "#...# content" is the record [level, text], level being  *)
(* the number of leading "#" characters and text the content: the row's    *)
(* characters for a row, the one-element sequence << name >> for a title,  *)
(* an idea name or a heading.  A document is the sequence of its lines     *)
(* (the "\n".join of lines none of which contains a line break).           *)
(***************************************************************************)
EXTENDS Integers, Sequences, FiniteSets, TLC

\* ---------------------------------------------------------------- CONFIG
HEADINGS ==
    << "Description", "Complexity", "Competitors",
       "Synergy with Promethius", "Implementation Cost", "Risks" >>

MODEL_NAME == "gpt-4.5-preview"

\* ---------------------------------------------------------------- bounds
\* number of user actions explored from the first script run
MaxSteps == 3

\* names the user types into the "Idea name" / "Name" inputs
NameInputs == { "Tracker for Poker", "GTO Clickable-Map", "Poker Tracker", "", " " }

\* headings whose text areas the user edits, and the texts typed
EditHeadings == { "Description", "Risks" }
EditTexts ==
    { << "a" >>,
      << " " >>,
      << " ", "a", " ", "\n", " ", "\n", "b" >> }

\* completions the remote model returns
Responses ==
    { << "7", "/", "1", "0" >>,
      << "8", "\n", "s", "c", "o", "r", "e" >> }

\* OPENAI_API_KEY in the environment of the process
ApiKeys == { "unset", "invalid", "valid" }

\* ---------------------------------------------------------------- dict
Keys(d) == { d[i].key : i \in 1..Len(d) }

DictHas(d, k) == k \in Keys(d)

IndexOf(d, k) == CHOOSE i \in 1..Len(d) : d[i].key = k

DictGet(d, k) == d[IndexOf(d, k)].val

\* d.pop(k), k present
DictPop(d, k) ==
    LET i == IndexOf(d, k)
    IN  SubSeq(d, 1, i - 1) \o SubSeq(d, i + 1, Len(d))

\* d[k] = v : in place when k is a key, appended last otherwise
DictSet(d, k, v) ==
    IF DictHas(d, k)
    THEN [ d EXCEPT ![IndexOf(d, k)].val = v ]
    ELSE Append(d, [ key |-> k, val |-> v ])

\* {h: "" for h in HEADINGS}
BlankSections == [ i \in 1..Len(HEADINGS) |-> [ key |-> HEADINGS[i], val |-> << >> ] ]

\* ---------------------------------------------------------------- files
\* A file: whether it exists, whether json.load accepts its text, and the
\* value json.load returns for it.
NoFile == [ exists |-> FALSE, parses |-> FALSE, doc |-> << >> ]

\* json.load(f) raises (line 50)
JSONDecodeError(file) == file.exists /\ ~file.parses

_load_json(file, default) == IF file.exists THEN file.doc ELSE default

_save_json(obj) == [ exists |-> TRUE, parses |-> TRUE, doc |-> obj ]

SeedIdeas ==
    << [ key |-> "Tracker for Poker",  val |-> BlankSections ],
       [ key |-> "GTO Clickable-Map",  val |-> BlankSections ],
       [ key |-> "Interactive AI Hub", val |-> BlankSections ] >>

load_ideas(file) == _load_json(file, SeedIdeas)

save_ideas(mapping) == _save_json(mapping)

\* append_evaluation starting from the default instead of the loaded log
append_evaluation_fresh(file, entry) == _save_json(Append(<< >>, entry))

append_evaluation(file, entry) == _save_json(Append(_load_json(file, << >>), entry))

\* ---------------------------------------------------------------- text
LineBreaks == { "\n" }
Whitespace == { " ", "\n" }

\* str.splitlines(): the lines between line breaks, no trailing empty line
RECURSIVE splitlines(_)
splitlines(txt) ==
    IF txt = << >> THEN << >>
    ELSE LET brk == { i \in 1..Len(txt) : txt[i] \in LineBreaks }
         IN  IF brk = {} THEN << txt >>
             ELSE LET i == CHOOSE j \in brk : \A k \in brk : j <= k
                  IN  << SubSeq(txt, 1, i - 1) >> \o splitlines(SubSeq(txt, i + 1, Len(txt)))

RECURSIVE lstrip(_)
lstrip(row) ==
    IF row # << >> /\ Head(row) \in Whitespace THEN lstrip(Tail(row)) ELSE row

RECURSIVE rstrip(_)
rstrip(row) ==
    IF row # << >> /\ row[Len(row)] \in Whitespace
    THEN rstrip(SubSeq(row, 1, Len(row) - 1))
    ELSE row

\* strip() trimming the left end only
strip_left(row) == lstrip(row)

\* str.strip()
strip(row) == rstrip(lstrip(row))

Line(lv, content) == [ level |-> lv, text |-> content ]

\* the inner loop of markdown_from_idea: one "#### row" per non-blank row
RECURSIVE RowLines(_)
RowLines(rows) ==
    IF rows = << >> THEN << >>
    ELSE LET row == strip(Head(rows))
         IN  (IF row # << >> THEN << Line(4, row) >> ELSE << >>) \o RowLines(Tail(rows))

\* the outer loop of markdown_from_idea over sections.items()
RECURSIVE SectionLines(_, _)
SectionLines(sections, showEmpty) ==
    IF sections = << >> THEN << >>
    ELSE LET head == Head(sections).key
             txt  == Head(sections).val
         IN  (IF txt # << >> \/ showEmpty
              THEN << Line(3, << head >>) >> \o RowLines(splitlines(txt))
              ELSE << >>)
             \o SectionLines(Tail(sections), showEmpty)

markdown_from_idea(name, sections, showEmpty) ==
    << Line(2, << name >>) >> \o SectionLines(sections, showEmpty)

RECURSIVE IdeaParts(_, _)
IdeaParts(mapping, showEmpty) ==
    IF mapping = << >> THEN << >>
    ELSE markdown_from_idea(Head(mapping).key, Head(mapping).val, showEmpty)
         \o IdeaParts(Tail(mapping), showEmpty)

build_mindmap_md(mapping, showEmpty) ==
    << Line(1, << "Promethius small Business Case" >>) >> \o IdeaParts(mapping, showEmpty)

\* ---------------------------------------------------------------- score
\* re.I: the pattern's letters match either case
Lower(c) ==
    CASE c = "S" -> "s" [] c = "C" -> "c" [] c = "O" -> "o"
      [] c = "R" -> "r" [] c = "E" -> "e" [] OTHER -> c

Digits == { "0", "1", "2", "3", "4", "5", "6", "7", "8", "9" }
\* \w
WordChars == Digits \cup { "s", "c", "o", "r", "e", "S", "C", "O", "R", "E", "x", "_" }
\* \s
SpaceChars == { " ", "\n" }

DigitValue(c) ==
    CASE c = "1" -> 1 [] c = "2" -> 2 [] c = "3" -> 3 [] c = "4" -> 4 [] c = "5" -> 5
      [] c = "6" -> 6 [] c = "7" -> 7 [] c = "8" -> 8 [] c = "9" -> 9 [] OTHER -> 0

\* \b at position p (before character p, p in 1..Len+1)
WordBoundary(md, p) ==
    ((p > 1) /\ (md[p - 1] \in WordChars)) # ((p <= Len(md)) /\ (md[p] \in WordChars))

\* a literal of the pattern at position p
Literal(md, p, lit) ==
    /\ p + Len(lit) - 1 <= Len(md)
    /\ \A i \in 1..Len(lit) : Lower(md[p + i - 1]) = lit[i]

\* \s* : the position after the longest run of whitespace from p
RECURSIVE SkipSpaces(_, _)
SkipSpaces(md, p) ==
    IF p <= Len(md) /\ md[p] \in SpaceChars THEN SkipSpaces(md, p + 1) ELSE p

\* ([1-9]|10) at p: the ways it matches, in the order the engine tries them,
\* each as [end |-> position after the number, value |-> its value]
NumberAt(md, p) ==
    (IF p <= Len(md) /\ md[p] \in (Digits \ { "0" })
     THEN << [ end |-> p + 1, value |-> DigitValue(md[p]) ] >> ELSE << >>)
    \o
    (IF Literal(md, p, << "1", "0" >>)
     THEN << [ end |-> p + 2, value |-> 10 ] >> ELSE << >>)

\* \s*/\s*10\b after the number
SlashTen(md, q) ==
    LET a == SkipSpaces(md, q)
        b == SkipSpaces(md, a + 1)
    IN  /\ Literal(md, a, << "/" >>)
        /\ Literal(md, b, << "1", "0" >>)
        /\ WordBoundary(md, b + 2)

\* "." : any character but a newline, or any character at all under re.S
Dot(c, dotall) == dotall \/ c # "\n"

\* \b(?=.*score) after the number
ScoreAhead(md, q, dotall) ==
    /\ WordBoundary(md, q)
    /\ \E r \in q..Len(md) :
          /\ Literal(md, r, << "s", "c", "o", "r", "e" >>)
          /\ \A i \in q..(r - 1) : Dot(md[i], dotall)

\* the first alternative of the pattern at p: << value >> or << >>
FirstAlt(md, p) ==
    LET ok == SelectSeq(NumberAt(md, p), LAMBDA n : SlashTen(md, n.end))
    IN  IF WordBoundary(md, p) /\ ok # << >> THEN << Head(ok).value >> ELSE << >>

\* the second alternative of the pattern at p
SecondAlt(md, p, dotall) ==
    LET ok == SelectSeq(NumberAt(md, p), LAMBDA n : ScoreAhead(md, n.end, dotall))
    IN  IF WordBoundary(md, p) /\ ok # << >> THEN << Head(ok).value >> ELSE << >>

\* the pattern at p: int(m.group(1) or m.group(2))
MatchAt(md, p, dotall) ==
    IF FirstAlt(md, p) # << >> THEN FirstAlt(md, p) ELSE SecondAlt(md, p, dotall)

\* re.search: the match at the leftmost position that has one; << >> is None
Search(md, dotall) ==
    LET hits == { p \in 1..Len(md) : MatchAt(md, p, dotall) # << >> }
    IN  IF hits = {} THEN << >>
        ELSE MatchAt(md, CHOOSE p \in hits : \A q \in hits : p <= q, dotall)

extract_score(md) == Search(md, FALSE)

\* ---------------------------------------------------------------- state
VARIABLES
    apiKey,         \* os.getenv("OPENAI_API_KEY"): "unset", "invalid" or "valid"
    inSession,      \* "ideas" in st.session_state
    ideas,          \* st.session_state.ideas
    show_empty,     \* st.session_state.show_empty
    last_eval,      \* << >> when "last_eval" not in st.session_state, else << text >>
    ideaFile,       \* data/ideas.json
    evalFile,       \* data/evaluations.json
    boundSections,  \* index in ideas of the dict the on_change lambdas' free
                    \* variable "sections" refers to; 0 when no card was drawn
    stoppedAt,      \* where the last script run ended: "none" (ran to the end),
                    \* "client" (line 128 raised), "load" (json.load raised),
                    \* "quick" / "deep" (gpt_evaluate raised), "cards" (sections[h]
                    \* raised at line 199), "boot" (no run yet)
    message,        \* the st.error / st.success / exception shown by the last run
    lastOp,         \* the user action that triggered the last script run
    now,            \* datetime.utcnow(), one tick per user action
    mindmap_md,     \* the document drawn at line 210 by the last run, << >> if none
    md,             \* argument of the extract_score call under test
    scoreCalled,    \* whether that call has returned
    score           \* its result: << >> (None) or << n >>

vars == << apiKey, inSession, ideas, show_empty, last_eval, ideaFile, evalFile,
           boundSections, stoppedAt, message, lastOp, now, mindmap_md,
           md, scoreCalled, score >>

session == << inSession, ideas, show_empty, last_eval >>
files   == << ideaFile, evalFile >>
pure    == << md, scoreCalled, score >>

Op(o, n, a, t) == [ op |-> o, name |-> n, arg |-> a, text |-> t ]

\* not name.strip()
BlankNames == { "", " " }

\* ---------------------------------------------------------------- script
\* The for loop over st.session_state.ideas.items() ran to its end: every
\* text_area registered a lambda whose free variable "sections" is the loop
\* variable of main(), left at the last item.
CardsDrawn(ideas_) == Len(ideas_)

\* the first heading of HEADINGS that sections[h] raises KeyError for, 0 if none
MissingHeading(sections) ==
    LET miss == { i \in 1..Len(HEADINGS) : ~DictHas(sections, HEADINGS[i]) }
    IN  IF miss = {} THEN 0 ELSE CHOOSE i \in miss : \A j \in miss : i <= j

\* the first card whose text areas raise KeyError at line 199, 0 if none
FirstKeyError(mapping) ==
    LET bad == { i \in 1..Len(mapping) : MissingHeading(mapping[i].val) # 0 }
    IN  IF bad = {} THEN 0 ELSE CHOOSE i \in bad : \A j \in bad : i <= j

\* The rest of a script run whose handler raised nothing: the cards loop and
\* the final render.  The loop stops at the first card that lacks a heading,
\* with "sections" left at that card; the handler's own message stays on
\* screen next to the exception.
RanToEnd(msg) ==
    IF FirstKeyError(ideas') = 0
    THEN /\ stoppedAt' = "none"
         /\ boundSections' = CardsDrawn(ideas')
         /\ mindmap_md' = build_mindmap_md(ideas', show_empty')
         /\ message' = msg
    ELSE /\ stoppedAt' = "cards"
         /\ boundSections' = FirstKeyError(ideas')
         /\ mindmap_md' = << >>
         /\ message' = IF msg # "" THEN msg ELSE "KeyError"

\* A script run that raises at `where`: nothing after it is drawn
Raised(where, msg) ==
    /\ stoppedAt' = where
    /\ boundSections' = 0
    /\ mindmap_md' = << >>
    /\ message' = msg

Tick == now < MaxSteps /\ now' = now + 1

\* widgets on screen after the last run
SidebarTopShown == stoppedAt \in { "none", "quick", "deep", "cards" }
DeepButtonShown == stoppedAt \in { "none", "deep", "cards" }
SaveShown       == stoppedAt \in { "none", "cards" }
AllShown        == stoppedAt = "none"

\* the "Name" input of the card of idea is on screen
NameShown(idea) ==
    \/ AllShown
    \/ stoppedAt = "cards" /\ IndexOf(ideas, idea) <= boundSections

\* the text area of (idea, h) is on screen
FieldShown(idea, h) ==
    \/ AllShown
    \/ /\ stoppedAt = "cards"
       /\ \/ IndexOf(ideas, idea) < boundSections
          \/ /\ IndexOf(ideas, idea) = boundSections
             /\ \E i \in 1..Len(HEADINGS) :
                   /\ HEADINGS[i] = h
                   /\ i < MissingHeading(ideas[boundSections].val)

\* the "Delete" button of the card of idea is on screen
DeleteShown(idea) ==
    \/ AllShown
    \/ stoppedAt = "cards" /\ IndexOf(ideas, idea) < boundSections

\* ---------------------------------------------------------------- Init
\* A new process, nothing persisted yet, after its first script run.
Init ==
    /\ apiKey \in ApiKeys
    /\ ideaFile = NoFile
    /\ evalFile = NoFile
    /\ inSession = (apiKey # "unset")
    /\ ideas = IF apiKey # "unset" THEN load_ideas(NoFile) ELSE << >>
    /\ show_empty = FALSE
    /\ last_eval = << >>
    /\ stoppedAt = IF apiKey # "unset" THEN "none" ELSE "client"
    /\ boundSections = IF apiKey # "unset" THEN CardsDrawn(load_ideas(NoFile)) ELSE 0
    /\ message = IF apiKey # "unset" THEN "" ELSE "OpenAIError: api_key must be set"
    /\ lastOp = Op("start", "", "", << >>)
    /\ now = 0
    /\ mindmap_md = IF apiKey # "unset"
                    THEN build_mindmap_md(load_ideas(NoFile), FALSE)
                    ELSE << >>
    /\ md = << >>
    /\ scoreCalled = FALSE
    /\ score = << >>

\* ---------------------------------------------------------------- actions
\* "Add idea" without the membership test of line 141
AddIdeaNoCheck(new_name) ==
    /\ SidebarTopShown
    /\ new_name \notin BlankNames
    /\ Tick
    /\ ideas' = DictSet(ideas, new_name, BlankSections)
    /\ lastOp' = Op("add", new_name, "", << >>)
    /\ UNCHANGED << apiKey, inSession, show_empty, last_eval, files, pure >>
    /\ RanToEnd("Added")

\* "Add idea" followed by save_ideas
AddIdeaSaving(new_name) ==
    /\ SidebarTopShown
    /\ new_name \notin BlankNames
    /\ Tick
    /\ ideas' = IF DictHas(ideas, new_name)
                THEN ideas
                ELSE DictSet(ideas, new_name, BlankSections)
    /\ ideaFile' = save_ideas(ideas')
    /\ lastOp' = Op("add", new_name, "", << >>)
    /\ UNCHANGED << apiKey, inSession, show_empty, last_eval, evalFile, pure >>
    /\ RanToEnd(IF DictHas(ideas, new_name) THEN "Idea already exists" ELSE "Added")

\* "Add idea" button, lines 139-145
AddIdea(new_name) ==
    /\ SidebarTopShown
    /\ new_name \notin BlankNames
    /\ Tick
    /\ ideas' = IF DictHas(ideas, new_name)
                THEN ideas
                ELSE DictSet(ideas, new_name, BlankSections)
    /\ lastOp' = Op("add", new_name, "", << >>)
    /\ UNCHANGED << apiKey, inSession, show_empty, last_eval, files, pure >>
    /\ RanToEnd(IF DictHas(ideas, new_name) THEN "Idea already exists" ELSE "Added")

\* "Show empty headings" checkbox, line 148
ToggleShowEmpty ==
    /\ SidebarTopShown
    /\ Tick
    /\ show_empty' = ~show_empty
    /\ lastOp' = Op("toggle", "", "", << >>)
    /\ UNCHANGED << apiKey, inSession, ideas, last_eval, files, pure >>
    /\ RanToEnd("")

Entry(mode, out) ==
    [ timestamp |-> now,
      mode      |-> mode,
      score     |-> extract_score(out),
      markdown  |-> out,
      model     |-> MODEL_NAME ]

\* gpt_evaluate returned `out`: lines 155-164 / 170-179
EvaluateOk(mode, out) ==
    /\ IF mode = "quick" THEN SidebarTopShown ELSE DeepButtonShown
    /\ apiKey = "valid"
    /\ Tick
    /\ last_eval' = << out >>
    /\ evalFile' = append_evaluation(evalFile, Entry(mode, out))
    /\ lastOp' = Op(mode, "", "ok", out)
    /\ UNCHANGED << apiKey, inSession, ideas, show_empty, ideaFile, pure >>
    /\ RanToEnd("")

\* a failed evaluation that logs an entry all the same
EvaluateFailsLogged(mode) ==
    /\ IF mode = "quick" THEN SidebarTopShown ELSE DeepButtonShown
    /\ Tick
    /\ evalFile' = append_evaluation(evalFile, Entry(mode, << >>))
    /\ Raised(mode, IF apiKey = "invalid"
                    THEN "AuthenticationError"
                    ELSE "APIConnectionError")
    /\ lastOp' = Op(mode, "", "raised", << >>)
    /\ UNCHANGED << apiKey, session, ideaFile, pure >>

\* gpt_evaluate raised (line 114): rejected key, or the request failed
EvaluateFails(mode) ==
    /\ IF mode = "quick" THEN SidebarTopShown ELSE DeepButtonShown
    /\ Tick
    /\ Raised(mode, IF apiKey = "invalid"
                    THEN "AuthenticationError"
                    ELSE "APIConnectionError")
    /\ lastOp' = Op(mode, "", "raised", << >>)
    /\ UNCHANGED << apiKey, session, files, pure >>

\* "Save mind-map" button, lines 182-184
SaveMindmap ==
    /\ SaveShown
    /\ Tick
    /\ ideaFile' = save_ideas(ideas)
    /\ lastOp' = Op("save", "", "", << >>)
    /\ UNCHANGED << apiKey, session, evalFile, pure >>
    /\ RanToEnd("Mind-map saved")

\* a rename that re-creates the entry instead of moving it
RenameBlank(idea, new_title) ==
    /\ DictHas(ideas, idea)
    /\ NameShown(idea)
    /\ new_title # idea
    /\ Tick
    /\ ideas' = DictSet(DictPop(ideas, idea), new_title, BlankSections)
    /\ ideaFile' = save_ideas(ideas')
    /\ lastOp' = Op("rename", idea, new_title, << >>)
    /\ UNCHANGED << apiKey, inSession, show_empty, last_eval, evalFile, pure >>
    /\ RanToEnd("")

\* "Name" text input of a card, lines 191-195, and the rerun
Rename(idea, new_title) ==
    /\ DictHas(ideas, idea)
    /\ NameShown(idea)
    /\ new_title # idea
    /\ Tick
    /\ ideas' = DictSet(DictPop(ideas, idea), new_title, DictGet(ideas, idea))
    /\ ideaFile' = save_ideas(ideas')
    /\ lastOp' = Op("rename", idea, new_title, << >>)
    /\ UNCHANGED << apiKey, inSession, show_empty, last_eval, evalFile, pure >>
    /\ RanToEnd("")

\* on_change of the text_area of (idea, h), lines 198-202: runs before the
\* script, on the dict its free variable "sections" refers to
EditHeading(idea, h, text) ==
    /\ DictHas(ideas, idea)
    /\ FieldShown(idea, h)
    /\ boundSections \in 1..Len(ideas)
    /\ Tick
    /\ ideas' = [ ideas EXCEPT ![boundSections].val = DictSet(@, h, text) ]
    /\ lastOp' = Op("edit", idea, h, text)
    /\ UNCHANGED << apiKey, inSession, show_empty, last_eval, files, pure >>
    /\ RanToEnd("")

\* "Delete" button of a card, lines 204-207, and the rerun
Delete(idea) ==
    /\ DictHas(ideas, idea)
    /\ DeleteShown(idea)
    /\ Tick
    /\ ideas' = DictPop(ideas, idea)
    /\ ideaFile' = save_ideas(ideas')
    /\ lastOp' = Op("delete", idea, "", << >>)
    /\ UNCHANGED << apiKey, inSession, show_empty, last_eval, evalFile, pure >>
    /\ RanToEnd("")

\* A rerun no handler reacts to (typing in "Idea name", opening a card)
Rerun ==
    /\ inSession
    /\ Tick
    /\ lastOp' = Op("rerun", "", "", << >>)
    /\ UNCHANGED << apiKey, session, files, pure >>
    /\ RanToEnd("")

\* The process is started (again), with the key k in its environment: the
\* session state is gone, the files stay; lines 128-132 of the first run,
\* where OpenAI(...) or json.load may raise, and the rest of that run
Restart(k) ==
    /\ Tick
    /\ apiKey' = k
    /\ inSession' = (k # "unset" /\ ~JSONDecodeError(ideaFile))
    /\ ideas' = IF k # "unset" /\ ~JSONDecodeError(ideaFile)
                THEN load_ideas(ideaFile)
                ELSE << >>
    /\ show_empty' = FALSE
    /\ last_eval' = << >>
    /\ lastOp' = Op("restart", "", "", << >>)
    /\ UNCHANGED << files, pure >>
    /\ IF k = "unset"
       THEN Raised("client", "OpenAIError: api_key must be set")
       ELSE IF JSONDecodeError(ideaFile)
            THEN Raised("load", "JSONDecodeError")
            ELSE RanToEnd("")

Next ==
    \/ \E n \in NameInputs : AddIdea(n)
    \/ ToggleShowEmpty
    \/ \E m \in { "quick", "deep" }, out \in Responses : EvaluateOk(m, out)
    \/ \E m \in { "quick", "deep" } : EvaluateFails(m)
    \/ SaveMindmap
    \/ \E i \in Keys(ideas), n \in NameInputs : Rename(i, n)
    \/ \E i \in Keys(ideas), h \in EditHeadings, t \in EditTexts : EditHeading(i, h, t)
    \/ \E i \in Keys(ideas) : Delete(i)
    \/ Rerun
    \/ \E k \in ApiKeys : Restart(k)

Spec == Init /\ [][Next]_vars

\* ---------------------------------------------------------------- starting on a file
\* HEADINGS of the earlier revision of the script (no "Description")
OLD_HEADINGS ==
    << "Complexity", "Competitors", "Synergy with Promethius",
       "Implementation Cost", "Risks" >>

SectionsOf(heads, text) == [ i \in 1..Len(heads) |-> [ key |-> heads[i], val |-> text ] ]

Reversed(seq) == [ i \in 1..Len(seq) |-> seq[Len(seq) + 1 - i] ]

\* JSON objects of names to objects of strings found in data/ideas.json
LoadDocs ==
    { \* written by this script
      << [ key |-> "Poker Tracker", val |-> SectionsOf(HEADINGS, << "a" >>) ] >>,
      \* the headings in another order
      << [ key |-> "Tracker for Poker", val |-> SectionsOf(Reversed(HEADINGS), << >>) ] >>,
      \* the second idea written with the earlier HEADINGS
      << [ key |-> "GTO Clickable-Map", val |-> BlankSections ],
         [ key |-> "Tracker for Poker", val |-> SectionsOf(OLD_HEADINGS, << >>) ] >>,
      \* a key that is no heading
      << [ key |-> "Poker Tracker", val |-> SectionsOf(<< "Notes" >>, << "a" >>) ] >> }

\* a file whose text is not JSON
GarbledFile == [ exists |-> TRUE, parses |-> FALSE, doc |-> << >> ]

LoadFiles == { NoFile, GarbledFile } \cup { _save_json(d) : d \in LoadDocs }

\* A process about to be started on whatever data/ideas.json holds.
InitLoad ==
    /\ apiKey = "unset"
    /\ ideaFile \in LoadFiles
    /\ evalFile = NoFile
    /\ inSession = FALSE
    /\ ideas = << >>
    /\ show_empty = FALSE
    /\ last_eval = << >>
    /\ stoppedAt = "boot"
    /\ boundSections = 0
    /\ message = ""
    /\ lastOp = Op("boot", "", "", << >>)
    /\ now = 0
    /\ mindmap_md = << >>
    /\ md = << >>
    /\ scoreCalled = FALSE
    /\ score = << >>

SpecLoad == InitLoad /\ [][Next]_vars

\* ---------------------------------------------------------------- extract_score alone
MaxFrags == 4

Frags ==
    { << "7" >>, << "1" >>, << "1", "0" >>, << "/" >>, << " " >>, << "\n" >>,
      << "x" >>, << "s", "c", "o", "r", "e" >>, << "S", "c", "o", "r", "e" >> }

RECURSIVE Concat(_)
Concat(parts) == IF parts = << >> THEN << >> ELSE Head(parts) \o Concat(Tail(parts))

ScoreTexts == { Concat(f) : f \in UNION { [ 1..n -> Frags ] : n \in 0..MaxFrags } }

InitScore ==
    /\ apiKey = "valid"
    /\ ideaFile = NoFile
    /\ evalFile = NoFile
    /\ inSession = TRUE
    /\ ideas = load_ideas(NoFile)
    /\ show_empty = FALSE
    /\ last_eval = << >>
    /\ stoppedAt = "none"
    /\ boundSections = CardsDrawn(load_ideas(NoFile))
    /\ message = ""
    /\ lastOp = Op("start", "", "", << >>)
    /\ now = 0
    /\ mindmap_md = build_mindmap_md(load_ideas(NoFile), FALSE)
    /\ md \in ScoreTexts
    /\ scoreCalled = FALSE
    /\ score = << >>

\* score = extract_score(md), lines 95-97
ExtractScore ==
    /\ ~scoreCalled
    /\ scoreCalled' = TRUE
    /\ score' = extract_score(md)
    /\ UNCHANGED << apiKey, session, files, boundSections, stoppedAt, message,
                    lastOp, now, mindmap_md, md >>

NextScore == ExtractScore

SpecScore == InitScore /\ [][NextScore]_vars

\* ================================================================ claims
\* the step is the script run triggered by user action o
Did(o) == now' = now + 1 /\ lastOp'.op = o

\* the store holds a heading text that is not empty
HasText(mapping) ==
    \E i \in 1..Len(mapping) : \E j \in 1..Len(mapping[i].val) :
        mapping[i].val[j].val # << >>

\* C1: renaming an idea to another name that is present in the store reports a
\* duplicate-name error and leaves the store as it was.
C1_RenameToExistingRejected ==
    [][ (Did("rename") /\ DictHas(ideas, lastOp'.name) /\ DictHas(ideas, lastOp'.arg))
        => (ideas' = ideas /\ message' = "Idea already exists") ]_vars

\* C2: the edit callback of (name, heading) sets the text of that heading of
\* that idea to the new text and changes no other heading of any idea.
C2_EditWritesItsOwnIdea ==
    [][ Did("edit") =>
          /\ Len(ideas') = Len(ideas)
          /\ \A i \in 1..Len(ideas) :
                /\ ideas'[i].key = ideas[i].key
                /\ Len(ideas'[i].val) = Len(ideas[i].val)
                /\ \A j \in 1..Len(ideas[i].val) :
                      /\ ideas'[i].val[j].key = ideas[i].val[j].key
                      /\ ideas'[i].val[j].val =
                            IF ideas[i].key = lastOp'.name
                               /\ ideas[i].val[j].key = lastOp'.arg
                            THEN lastOp'.text
                            ELSE ideas[i].val[j].val ]_vars

\* C3 as stated: add, rename, edit-heading and delete never change the
\* persisted idea file; only a save request does.
C3_FileChangesOnlyOnSave ==
    [][ (Did("add") \/ Did("rename") \/ Did("edit") \/ Did("delete"))
        => ideaFile' = ideaFile ]_vars

\* C3 as amended: the persisted idea file changes only in a save, a rename or
\* a delete, each of which writes the whole in-memory store; add and
\* edit-heading never change it.
C3_FileChangesOnlyOnSaveRenameDelete ==
    [][ /\ (Did("add") \/ Did("edit")) => ideaFile' = ideaFile
        /\ ideaFile' # ideaFile => (Did("save") \/ Did("rename") \/ Did("delete"))
        /\ (Did("save") \/ Did("rename") \/ Did("delete"))
              => ideaFile' = [ exists |-> TRUE, parses |-> TRUE, doc |-> ideas' ] ]_vars

\* an add or an edit has just run and the file still holds an older store
C3_Witness ==
    /\ lastOp.op \in { "add", "edit" }
    /\ ideaFile.exists
    /\ ideaFile.doc # ideas

\* C4: adding a name that is a key of the store leaves the store (ideas, order,
\* heading texts) as it was and reports the duplicate-name error.
C4_AddExistingRejected ==
    [][ (Did("add") /\ DictHas(ideas, lastOp'.name))
        => (ideas' = ideas /\ message' = "Idea already exists") ]_vars

\* a duplicate add was refused on an idea that carries text
C4_Witness ==
    /\ lastOp.op = "add"
    /\ message = "Idea already exists"
    /\ DictHas(ideas, lastOp.name)
    /\ HasText(<< [ key |-> lastOp.name, val |-> DictGet(ideas, lastOp.name) ] >>)

\* C5: renaming old to a name new that is not in the store removes old, leaves
\* exactly one entry new with old's heading texts, last in iteration order,
\* keeps the number of ideas and leaves every other idea unchanged.
C5_RenameKeepsContent ==
    [][ (Did("rename") /\ DictHas(ideas, lastOp'.name) /\ ~DictHas(ideas, lastOp'.arg))
        => LET old == lastOp'.name
               new == lastOp'.arg
           IN  /\ ~DictHas(ideas', old)
               /\ Cardinality({ i \in 1..Len(ideas') : ideas'[i].key = new }) = 1
               /\ Len(ideas') = Len(ideas)
               /\ ideas'[Len(ideas')] = [ key |-> new, val |-> DictGet(ideas, old) ]
               /\ SubSeq(ideas', 1, Len(ideas') - 1)
                    = SelectSeq(ideas, LAMBDA e : e.key # old) ]_vars

\* an idea that carries text was renamed to a fresh name
C5_Witness ==
    /\ lastOp.op = "rename"
    /\ lastOp.arg = "Poker Tracker"
    /\ Len(ideas) = Len(SeedIdeas)
    /\ ideas[Len(ideas)].key = "Poker Tracker"
    /\ HasText(<< ideas[Len(ideas)] >>)

\* C6: a successful evaluation run appends exactly one entry (its mode, its
\* response, the score extracted from it) to the reloaded log and keeps all
\* earlier entries in place; no other step changes the log.
C6_LogAppendOnly ==
    [][ IF (Did("quick") \/ Did("deep")) /\ lastOp'.arg = "ok"
        THEN /\ Len(_load_json(evalFile', << >>)) = Len(_load_json(evalFile, << >>)) + 1
             /\ SubSeq(_load_json(evalFile', << >>), 1, Len(_load_json(evalFile, << >>)))
                  = _load_json(evalFile, << >>)
             /\ LET e == _load_json(evalFile', << >>)[Len(_load_json(evalFile', << >>))]
                IN  /\ e.mode = lastOp'.op
                    /\ e.markdown = lastOp'.text
                    /\ e.score = extract_score(lastOp'.text)
                    /\ e.model = MODEL_NAME
                    /\ e.timestamp = now
        ELSE evalFile' = evalFile ]_vars

\* three appends to an empty log, reloaded: three entries in run order
C6_Witness ==
    LET log == _load_json(evalFile, << >>)
    IN  /\ Len(log) = 3
        /\ log[1].mode = "quick" /\ log[2].mode = "deep" /\ log[3].mode = "quick"
        /\ log[1].timestamp < log[2].timestamp
        /\ log[2].timestamp < log[3].timestamp

\* C7: an evaluation whose remote call raises (rejected credential or failed
\* request) shows an error, appends nothing to the log, leaves the idea store,
\* the idea file and the last evaluation text as they were and keeps the
\* session alive; a run without a credential shows an error that differs from
\* the one of a failed request.
C7_FailedEvaluationLeavesState ==
    [][ /\ ((Did("quick") \/ Did("deep")) /\ lastOp'.arg = "raised")
            => /\ evalFile' = evalFile
               /\ ideas' = ideas
               /\ ideaFile' = ideaFile
               /\ last_eval' = last_eval
               /\ show_empty' = show_empty
               /\ inSession'
               /\ message' # ""
               /\ (message' = "APIConnectionError") = (apiKey = "valid")
        /\ (now' = now + 1 /\ apiKey' = "unset")
            => /\ message' \notin { "", "APIConnectionError" }
               /\ files' = files ]_vars

\* an evaluation failed after an earlier one had succeeded
C7_Witness ==
    /\ lastOp.op \in { "quick", "deep" }
    /\ lastOp.arg = "raised"
    /\ last_eval # << >>
    /\ Len(_load_json(evalFile, << >>)) = 1

\* -------- reading a rendered document
\* the positions of the idea lines ("## name")
IdeaStarts(doc) == { i \in 1..Len(doc) : doc[i].level = 2 }

\* the n-th smallest element of a set of numbers
Nth(S, n) == CHOOSE x \in S : Cardinality({ y \in S : y <= x }) = n

\* the lines under the k-th idea line, up to the next idea line
BlockOf(doc, k) ==
    LET p     == Nth(IdeaStarts(doc), k)
        later == { r \in IdeaStarts(doc) : r > p }
        e     == IF later = {} THEN Len(doc) ELSE Nth(later, 1) - 1
    IN  SubSeq(doc, p + 1, e)

\* the fourth-level lines that directly follow line i of a block
RowsUnder(block, i) ==
    LET stop == { r \in (i + 1)..Len(block) : block[r].level # 4 }
        e    == IF stop = {} THEN Len(block) ELSE Nth(stop, 1) - 1
    IN  SubSeq(block, i + 1, e)

\* the non-blank lines of a text, each trimmed, in order
NonBlankRows(txt) ==
    LET breaks   == { i \in 1..Len(txt) : txt[i] = "\n" }
        starts   == { 1 } \cup { b + 1 : b \in breaks }
        last(st) == LET nb == { b \in breaks : b >= st }
                    IN  IF nb = {} THEN Len(txt) ELSE Nth(nb, 1) - 1
        ink(st)  == { i \in st..last(st) : txt[i] # " " }
        full     == { st \in starts : ink(st) # {} }
    IN  [ n \in 1..Cardinality(full) |->
            LET st == Nth(full, n)
            IN  SubSeq(txt, Nth(ink(st), 1), Nth(ink(st), Cardinality(ink(st)))) ]

\* C8: the document drawn with show_empty set has, for every idea of the
\* store, in store order, an idea line followed by a third-level line for
\* every heading of HEADINGS, in the order of HEADINGS, whatever the texts.
C8_ShowEmptyListsEveryHeading ==
    (stoppedAt = "none" /\ show_empty) =>
        /\ Cardinality(IdeaStarts(mindmap_md)) = Len(ideas)
        /\ \A k \in 1..Len(ideas) :
              /\ mindmap_md[Nth(IdeaStarts(mindmap_md), k)].text = << ideas[k].key >>
              /\ SelectSeq(BlockOf(mindmap_md, k), LAMBDA l : l.level = 3)
                   = [ i \in 1..Len(HEADINGS) |-> Line(3, << HEADINGS[i] >>) ]

\* C9: the document drawn without show_empty, for a store with some heading
\* text, has no heading line for a heading whose text is empty, has one for a
\* heading whose text has a non-blank line, and has under each heading line
\* exactly the non-blank lines of the text, trimmed, in order.
C9_HideEmptyOmitsAndTrims ==
    (stoppedAt = "none" /\ ~show_empty /\ HasText(ideas)) =>
        /\ Cardinality(IdeaStarts(mindmap_md)) = Len(ideas)
        /\ \A k \in 1..Len(ideas) : \A j \in 1..Len(ideas[k].val) :
              LET block == BlockOf(mindmap_md, k)
                  sec   == ideas[k].val[j]
                  at    == { i \in 1..Len(block) : block[i] = Line(3, << sec.key >>) }
              IN  /\ sec.val = << >> => at = {}
                  /\ NonBlankRows(sec.val) # << >> => Cardinality(at) = 1
                  /\ \A i \in at :
                        RowsUnder(block, i)
                          = [ n \in 1..Len(NonBlankRows(sec.val)) |->
                                Line(4, NonBlankRows(sec.val)[n]) ]

\* a text with blank and padded lines was typed, next to an empty heading
C9_Witness ==
    /\ stoppedAt = "none"
    /\ ~show_empty
    /\ lastOp.op = "edit"
    /\ \E k \in 1..Len(ideas) :
          /\ \E j \in 1..Len(ideas[k].val) : Len(NonBlankRows(ideas[k].val[j].val)) = 2
          /\ \E j \in 1..Len(ideas[k].val) : ideas[k].val[j].val = << >>

\* the value the claim gives: the first occurrence of N/10 or of a bare
\* integer with "score" anywhere later in the text
ClaimedScore(text) == Search(text, TRUE)

\* C10: extract_score returns None or an integer in 1..10, namely the value of
\* the first occurrence of N/10 or of a bare integer 1..10 followed later in
\* the text by "score", and None exactly when there is no such occurrence.
C10_ScoreAsClaimed ==
    scoreCalled =>
        /\ score = << >> \/ (Len(score) = 1 /\ score[1] \in 1..10)
        /\ score = ClaimedScore(md)

\* the document is an object of names to objects of heading -> string
ExpectedShape(doc) ==
    \A i \in 1..Len(doc) : \A j \in 1..Len(doc[i].val) :
        \E h \in 1..Len(HEADINGS) : doc[i].val[j].key = HEADINGS[h]

\* C11: when the idea file exists and is not valid JSON of the expected shape,
\* the load at session start fails with an error shown to the user and the
\* document does not become the in-memory store.
C11_LoadRejectsMalformed ==
    [][ ( /\ Did("restart")
          /\ apiKey' # "unset"
          /\ ideaFile.exists
          /\ ~ideaFile.parses \/ ~ExpectedShape(ideaFile.doc) )
        => ( /\ stoppedAt' = "load"
             /\ message' # ""
             /\ ~inSession' ) ]_vars

\* C12: every idea of the store carries exactly the headings of HEADINGS as
\* its keys, in the order of HEADINGS.
C12_HeadingSetFixed ==
    inSession =>
        \A i \in 1..Len(ideas) :
            [ j \in 1..Len(ideas[i].val) |-> ideas[i].val[j].key ] = HEADINGS

\* C13: no idea of the store and none of the idea file has an empty or
\* whitespace-only name.
C13_NoBlankNames ==
    /\ \A i \in 1..Len(ideas) : ideas[i].key \notin BlankNames
    /\ ideaFile.exists =>
          \A i \in 1..Len(ideaFile.doc) : ideaFile.doc[i].key \notin BlankNames

====
